---- MODULE Spec2Model ----
(***************************************************************************)
(* Model of the polling loops and retry wrappers of chi/expeca.py and of   *)
(* the Lease context manager and lease_create_args of chi/lease.py.        *)
(*                                                                         *)
(* One call of one operation is followed from its start to its end.  The   *)
(* remote services (Blazar, the container service) are the environment:    *)
(* every request either raises the client's exception or answers, and a    *)
(* listing answers with any list of records.  Time is counted in seconds   *)
(* since the running polling loop computed its deadline.                   *)
(***************************************************************************)
EXTENDS Integers, Sequences, FiniteSets, TLC

\* ------------------------------------------------------------ bounds
\* A remote call answers at once or, when the service is slow, after this
\* many seconds.
SlowCallSec == 40
\* Longest list a listing request answers with.
MaxListLen == 1

\* Servers one with block creates at most.
MaxServers == 1
\* with statements one Lease object is used in at most.
MaxEnters == 2

\* Times of day and lengths are multiples of TimeStep seconds, up to
\* MaxTicks of them.
TimeStep == 45
MaxTicks == 2

\* --------------------------------------------------- program constants
CONTAINER_STATUS_CHECK_TIMEOUT_SEC == 30
CONTAINER_STATUS_CHECK_PERIOD_SEC == 5
LEASE_STATUS_CHECK_TIMEOUT_SEC == 120
LEASE_STATUS_CHECK_PERIOD_SEC == 5
CREATE_LEASE_RETRY_NUM == 2
CREATE_LEASE_RETRY_PERIOD_SEC == 5
REMOVE_LEASE_RETRY_NUM == 1
REMOVE_LEASE_RETRY_PERIOD_SEC == 5
\* for _ in range(15) of Lease.wait
WAIT_CHECKS == 15
\* time.sleep(10) of Lease.wait
WAIT_SLEEP_SEC == 10
\* start = datetime.now(tz=tz.tzutc()) + timedelta(seconds=70)
NOW_START_DELAY_SEC == 70
\* DEFAULT_LEASE_LENGTH = timedelta(days=1)
DEFAULT_LEASE_LENGTH_DAYS == 1

\* Python's None, and a local variable that has not been assigned yet.
None == "None"
Unbound == "UNBOUND"
NoExc == "none"
BlazarClientException == "BlazarClientException"

\* ------------------------------------------------------- remote answers
\* leaseid = None, before a create request has answered.
NoLease == 0
\* The id of a lease that is not the one the call is about.
OtherLeaseId == -1
\* Lease statuses the code tells apart, and one it does not (PENDING).
LeaseStatuses == {"PENDING", "ACTIVE", "ERROR", "DELETING"}
LeaseRecords(leaseid) ==
    [id : {leaseid}, status : LeaseStatuses]
        \cup [id : {OtherLeaseId}, status : {"ACTIVE"}]
\* Every answer of chi.blazar().lease.list() up to MaxListLen leases.
LeaseLists(leaseid) ==
    UNION {[1..n -> LeaseRecords(leaseid)] : n \in 0..MaxListLen}

TargetContainer == "target"
ContainerStatuses == {"Running", "Deleting"}
ContainerRecords ==
    [name : {TargetContainer}, status : ContainerStatuses]
        \cup [name : {"other"}, status : {"Running"}]
ContainerLists ==
    UNION {[1..n -> ContainerRecords] : n \in 0..MaxListLen}

\* A lease as blazar.lease.get answers it: the old format has no action.
LeaseDicts ==
    {[action |-> None, status |-> "PENDING"],
     [action |-> None, status |-> "ACTIVE"],
     [action |-> "START", status |-> "IN_PROGRESS"],
     [action |-> "START", status |-> "COMPLETE"]}
\* The exc argument of Lease.__exit__: None when the block ended normally.
BlockExceptions == {None, "ServerError", "KeyboardInterrupt"}
\* exc.server.id of a ServerError: the instance that failed to start.
ServerIds == {"srv-1", "srv-2"}
\* The servers an exception of the block can carry: only ServerError has one.
FailedServers(e) == IF e = "ServerError" THEN ServerIds ELSE {None}

\* ------------------------------------------------------ pure functions
\* The for loop of get_lease_status from position i on: the last lease
\* with the id decides.
RECURSIVE ScanLeaseStatus(_, _, _, _)
ScanLeaseStatus(leaselist, i, leaseid, status) ==
    IF i > Len(leaselist) THEN status
    ELSE ScanLeaseStatus(leaselist, i + 1, leaseid,
            IF leaselist[i].id = leaseid THEN leaselist[i].status ELSE status)

get_lease_status(leaselist, leaseid) ==
    ScanLeaseStatus(leaselist, 1, leaseid, None)

RECURSIVE ScanContainerStatus(_, _, _, _)
ScanContainerStatus(containerslist, i, containername, status) ==
    IF i > Len(containerslist) THEN status
    ELSE ScanContainerStatus(containerslist, i + 1, containername,
            IF containerslist[i].name = containername
            THEN containerslist[i].status ELSE status)

get_container_status(containerslist, containername) ==
    ScanContainerStatus(containerslist, 1, containername, None)

\* while time.time() < mustend
LoopContinuesOff(elapsed, timeout) == elapsed <= timeout
LoopContinues(elapsed, timeout) == elapsed < timeout

\* time.sleep(period) followed by the remote call: at least period seconds.
SleptShort(elapsed, period, d) == elapsed + period - 1 + d
Slept(elapsed, period, d) == elapsed + period + d

\* retries_left = 1 + RETRY_NUM
InitialRetriesOff(retrynum) == 2 + retrynum
InitialRetries(retrynum) == 1 + retrynum

\* if retries_left <= 0: logger.error("giving up ...")
GivesUpEarly(retries_left) == retries_left <= 1
GivesUp(retries_left) == retries_left <= 0

\* except BlazarClientException
CatchesNothing(e) == FALSE
Catches(e) == e = BlazarClientException

\* elif status == "ERROR": if not erroneouslease: raise
RaisesOnErrorNever(status, erroneouslease) == FALSE
RaisesOnError(status, erroneouslease) ==
    status = "ERROR" /\ ~erroneouslease

\* try_to_remove's refusal before any delete request
RefusesRemoval(status) ==
    status = None \/ status = "STARTING" \/ status = "DELETING"

\* if leaseid: remove_lease(...)
RemovesFailedLeaseNever(leaseid) == FALSE
RemovesFailedLease(leaseid) == leaseid # NoLease

\* if status == None: return
ContainerGoneOrDeleting(status) == status = None \/ status = "Deleting"
ContainerGone(status) == status = None

\* Lease.status after the refresh: the pair (action, status) in the new
\* format, the status alone in the old one.
LeaseStatusValue(lease) ==
    IF lease.action # None THEN <<lease.action, lease.status>>
    ELSE <<lease.status>>

\* Lease.ready: the format is read off the lease held before the refresh.
LeaseReady(held, fresh) ==
    IF held.action # None
    THEN LeaseStatusValue(fresh) = <<"START", "COMPLETE">>
    ELSE LeaseStatusValue(fresh) = <<"ACTIVE">>

\* Lease.wait: the for loop has run out of rounds, its else clause runs.
WaitExhaustedEarly(checks) == checks >= WAIT_CHECKS - 1
WaitExhausted(checks) == checks >= WAIT_CHECKS

\* __exit__: if exc is not None and self._noclean: return
ExitUnclean(e, noclean) == e # None /\ noclean

\* __exit__: if isinstance(exc, ServerError) and self._sequester
ExitSequesters(e, sequester) == e = "ServerError" /\ sequester

\* "sequester-error-instance-{}".format(exc.server.id)
SequesterName(serverid) == <<"sequester-error-instance-", serverid>>

\* The keyword arguments of the blazar.lease.update call of __exit__.
SequesterUpdate(serverid) ==
    [name |-> SequesterName(serverid), prolong_for |-> "6d"]

\* __exit__: if not self._preexisting: self.delete()
ExitDeletesAlways(preexisting) == TRUE
ExitDeletesNever(preexisting) == FALSE
ExitDeletes(preexisting) == ~preexisting

\* ---------------------------------------------------- lease_create_args
\* A datetime is the number of seconds since the epoch; a timedelta is
\* Python's normalised pair of days and seconds.
SecondsPerDay == 86400

timedelta(days, seconds) ==
    [days |-> days + seconds \div SecondsPerDay,
     seconds |-> seconds % SecondsPerDay]

DEFAULT_LEASE_LENGTH == timedelta(DEFAULT_LEASE_LENGTH_DAYS, 0)

\* if isinstance(length, numbers.Number): length = timedelta(seconds=length)
NumberToTimedeltaMinutes(length) == timedelta(0, length * 60)
NumberToTimedelta(length) == timedelta(0, length)

\* datetime + timedelta
AddTimedelta(t, td) == t + td.days * SecondsPerDay + td.seconds

\* t.strftime(BLAZAR_TIME_FORMAT), "%Y-%m-%d %H:%M": the date, the hour and
\* the minute; the seconds are dropped.
strftime(t) ==
    <<t \div SecondsPerDay, (t % SecondsPerDay) \div 3600, (t % 3600) \div 60>>

Times == {k * TimeStep : k \in 0..MaxTicks}
\* start: the string 'now' or a datetime.
StartArgs ==
    {[now |-> TRUE, t |-> 0]} \cup {[now |-> FALSE, t |-> t] : t \in Times}
\* length: None, a number of seconds or a timedelta.
LengthArgs ==
    {[kind |-> None, n |-> 0, td |-> timedelta(0, 0)]}
        \cup {[kind |-> "number", n |-> n, td |-> timedelta(0, 0)] :
                 n \in Times \cup {SecondsPerDay + TimeStep}}
        \cup {[kind |-> "timedelta", n |-> 0, td |-> td] :
                 td \in {timedelta(0, t) : t \in Times}
                           \cup {timedelta(1, 0)}}
\* end: None or a datetime.
EndArgs ==
    {[given |-> FALSE, t |-> 0]}
        \cup {[given |-> TRUE, t |-> t] : t \in Times}
\* The arguments of one call, and what datetime.now answers during it.
CreateArgs ==
    [start : StartArgs, length : LengthArgs, end : EndArgs,
     networks : 0..1, clock : Times]

\* lease_create_args: how it ends, its locals start, length and end when it
\* ends, and the dictionary it returns (none when it raises).
lease_create_args(a) ==
    LET start == IF a.start.now THEN a.clock + NOW_START_DELAY_SEC
                 ELSE a.start.t
        neither == a.length.kind = None /\ ~a.end.given
        both == a.length.kind # None /\ a.end.given
        length == IF neither THEN DEFAULT_LEASE_LENGTH
                  ELSE IF a.length.kind = "number" /\ ~a.end.given
                  THEN NumberToTimedelta(a.length.n)
                  ELSE a.length.td
        end == IF a.end.given THEN a.end.t ELSE AddTimedelta(start, length)
        locals == [start |-> start, length |-> length, end |-> end]
    IN IF both
       THEN \* raise ValueError("provide either 'length' or 'end', not both")
            [outcome |-> "ValueError", locals |-> locals, built |-> <<>>]
       ELSE IF a.networks > 0
       THEN \* f"{prefix}-net{idx}": prefix is not defined in the function
            [outcome |-> "NameError", locals |-> locals, built |-> <<>>]
       ELSE [outcome |-> "returned", locals |-> locals,
             built |-> <<[start |-> strftime(start), end |-> strftime(end)]>>]

VARIABLES
    op,      \* the operation this run follows
    stack,   \* the functions being executed, innermost last
    exc,     \* the exception travelling to the caller, or NoExc
    result,  \* "running", "returned" or "raised": how the operation ended
    w,       \* wait_until_lease_status: arguments, locals, bookkeeping
    cw,      \* wait_until_container_removed: locals, bookkeeping
    rm,      \* remove_lease: arguments, locals, bookkeeping
    rs,      \* reserve: arguments, locals, bookkeeping
    req,     \* requests sent to Blazar so far, leases they left there
    lz,      \* the Lease object: lease, flags, servers
    ctx,     \* the with statements the Lease object is used in
    lca      \* lease_create_args: arguments, outcome, locals, result

vars == <<op, stack, exc, result, w, cw, rm, rs, req, lz, ctx, lca>>

Top == IF stack = <<>> THEN "" ELSE stack[Len(stack)]

\* A function ends, returning (e = NoExc) or raising e to its caller.
Pop(e) ==
    /\ stack' = SubSeq(stack, 1, Len(stack) - 1)
    /\ exc' = e
    /\ result' = IF Len(stack) = 1
                 THEN (IF e = NoExc THEN "returned" ELSE "raised")
                 ELSE result

Push(fn) ==
    /\ stack' = Append(stack, fn)
    /\ exc' = NoExc
    /\ result' = result

\* -------------------------------------------------------------- frames
IdleWait ==
    [leaseid |-> OtherLeaseId, desired |-> None, erroneous |-> FALSE,
     elapsed |-> 0, status |-> Unbound, polls |-> 0, outcome |-> "idle"]

\* wait_until_lease_status is called: mustend = time.time() + timeout
NewWait(leaseid, desired, erroneous) ==
    [leaseid |-> leaseid, desired |-> desired, erroneous |-> erroneous,
     elapsed |-> 0, status |-> Unbound, polls |-> 0, outcome |-> "running"]

IdleContainerWait ==
    [elapsed |-> 0, status |-> Unbound, listed |-> FALSE, polls |-> 0,
     outcome |-> "idle"]

IdleRemove ==
    [leaseid |-> OtherLeaseId, erroneous |-> FALSE, retries_left |-> 0,
     pc |-> "idle", attempts |-> 0, deletes |-> 0,
     succeeded |-> FALSE, sleeps |-> 0, slept |-> 0, gaveup |-> 0]

\* remove_lease is called: retries_left = 1 + REMOVE_LEASE_RETRY_NUM
NewRemove(leaseid, erroneous) ==
    [leaseid |-> leaseid, erroneous |-> erroneous,
     retries_left |-> InitialRetries(REMOVE_LEASE_RETRY_NUM),
     pc |-> "loop", attempts |-> 0, deletes |-> 0,
     succeeded |-> FALSE, sleeps |-> 0, slept |-> 0, gaveup |-> 0]

IdleReserve ==
    [type |-> "network", retries_left |-> 0, leaseid |-> NoLease,
     answer |-> NoLease, pc |-> "idle", attempts |-> 0, waitEnded |-> FALSE,
     removeAttempts |-> 0,
     succeeded |-> FALSE, sleeps |-> 0, slept |-> 0, gaveup |-> 0,
     caught |-> 0]

NewReserve(type) ==
    [IdleReserve EXCEPT !.type = type, !.pc = "start"]

\* The requests sent to Blazar so far, and the leases of this call on the
\* remote service: live holds the leases a create request answered with and
\* that no accepted delete request and no listing has shown to be gone;
\* left holds those of them that remove_lease gave up removing.
NoRequests == [creates |-> 0, deletes |-> 0, live |-> {}, left |-> {}]

\* A listing without the lease, or a delete request that is accepted.
Gone(q, leaseid) ==
    [q EXCEPT !.live = @ \ {leaseid}, !.left = @ \ {leaseid}]

\* A listing was read: the lease is gone when it is not in it.
Listed(q, leaseid, status) ==
    IF status = None THEN Gone(q, leaseid) ELSE q

\* remove_lease has returned: r is its frame at that moment.
Removed(q, r) ==
    IF r.gaveup > 0 /\ r.leaseid \in q.live
    THEN [q EXCEPT !.left = @ \cup {r.leaseid}]
    ELSE q

\* No with statement has used the Lease object yet.
NewContext ==
    [pc |-> "outside", checks |-> 0, slept |-> 0, enters |-> 0, exits |-> 0,
     completed |-> 0,
     enter |-> "none", readySeen |-> FALSE,
     exitExc |-> None, exitServer |-> None,
     exitPath |-> "none", exitOutcome |-> "none",
     exitDeletes |-> 0, exitUpdates |-> 0, exitUpdate |-> <<>>,
     exitServerDeletes |-> 0,
     deletes |-> 0]

NoLeaseObject ==
    [lease |-> <<>>, preexisting |-> FALSE, noclean |-> FALSE,
     sequester |-> FALSE, servers |-> 0]

\* lease_create_args is not the operation of this run.
NoCreateArgs ==
    [args |-> [start |-> [now |-> TRUE, t |-> 0],
               length |-> [kind |-> None, n |-> 0, td |-> timedelta(0, 0)],
               end |-> [given |-> FALSE, t |-> 0],
               networks |-> 0, clock |-> 0],
     outcome |-> "idle",
     locals |-> [start |-> 0, length |-> timedelta(0, 0), end |-> 0],
     built |-> <<>>]

\* ---------------------------------------------------------------- Init
Start(o, fn) ==
    /\ op = o
    /\ stack = <<fn>>
    /\ exc = NoExc
    /\ result = "running"

InitWaitLease ==
    /\ Start("wait_until_lease_status", "wait_until_lease_status")
    /\ \E desired \in {"ACTIVE", "ERROR", None}, erroneous \in BOOLEAN :
          w = NewWait(1, desired, erroneous)
    /\ cw = IdleContainerWait /\ rm = IdleRemove /\ rs = IdleReserve
    /\ req = NoRequests
    /\ lz = NoLeaseObject /\ ctx = NewContext
    /\ lca = NoCreateArgs

InitWaitContainer ==
    /\ Start("wait_until_container_removed", "wait_until_container_removed")
    /\ cw = [IdleContainerWait EXCEPT !.outcome = "running"]
    /\ w = IdleWait /\ rm = IdleRemove /\ rs = IdleReserve
    /\ req = NoRequests
    /\ lz = NoLeaseObject /\ ctx = NewContext
    /\ lca = NoCreateArgs

InitRemove ==
    /\ Start("remove_lease", "remove_lease")
    /\ \E erroneous \in BOOLEAN : rm = NewRemove(1, erroneous)
    /\ w = IdleWait /\ cw = IdleContainerWait /\ rs = IdleReserve
    /\ req = NoRequests
    /\ lz = NoLeaseObject /\ ctx = NewContext
    /\ lca = NoCreateArgs

\* item['type'] is 'network' or none of the types reserve knows.
InitReserve ==
    /\ Start("reserve", "reserve")
    /\ \E type \in {"network", "other"} : rs = NewReserve(type)
    /\ w = IdleWait /\ cw = IdleContainerWait /\ rm = IdleRemove
    /\ req = NoRequests
    /\ lz = NoLeaseObject /\ ctx = NewContext
    /\ lca = NoCreateArgs

\* Lease(sequester=..., _no_clean=...): self.lease is what create answered.
\* Lease.from_existing(id): self.lease is what the refresh fetched.
InitLease ==
    /\ op = "Lease"
    /\ stack = <<>>
    /\ exc = NoExc
    /\ result = "running"
    /\ \E lease \in LeaseDicts :
         \/ \E sequester \in BOOLEAN, noclean \in BOOLEAN :
               lz = [lease |-> <<lease>>, preexisting |-> FALSE,
                     noclean |-> noclean, sequester |-> sequester,
                     servers |-> 0]
         \/ lz = [lease |-> <<lease>>, preexisting |-> TRUE,
                  noclean |-> FALSE, sequester |-> FALSE, servers |-> 0]
    /\ ctx = NewContext
    /\ w = IdleWait /\ cw = IdleContainerWait /\ rm = IdleRemove
    /\ rs = IdleReserve /\ req = NoRequests
    /\ lca = NoCreateArgs

\* lease_create_args(neutronclient, start=..., end=..., length=..., ...)
InitCreateArgs ==
    /\ Start("lease_create_args", "lease_create_args")
    /\ \E a \in CreateArgs :
          lca = [args |-> a, outcome |-> "running",
                 locals |-> NoCreateArgs.locals, built |-> <<>>]
    /\ w = IdleWait /\ cw = IdleContainerWait /\ rm = IdleRemove
    /\ rs = IdleReserve /\ req = NoRequests
    /\ lz = NoLeaseObject /\ ctx = NewContext

Init ==
    \/ InitCreateArgs
    \/ InitWaitLease
    \/ InitWaitContainer
    \/ InitRemove
    \/ InitReserve
    \/ InitLease

\* ---------------------------------------------------- lease_create_args
\* The whole call: it makes no remote request, it returns or raises.
LeaseCreateArgs ==
    /\ Top = "lease_create_args"
    /\ LET r == lease_create_args(lca.args)
       IN /\ lca' = [lca EXCEPT !.outcome = r.outcome, !.locals = r.locals,
                                 !.built = r.built]
          /\ Pop(IF r.outcome = "returned" THEN NoExc ELSE r.outcome)
    /\ UNCHANGED <<op, w, cw, rm, rs, req, lz, ctx>>

\* --------------------------------------------- wait_until_lease_status
\* One iteration of the while loop: sleep, get_lease_status, decide.
WaitLeaseIter ==
    /\ Top = "wait_until_lease_status"
    /\ LoopContinues(w.elapsed, LEASE_STATUS_CHECK_TIMEOUT_SEC)
    /\ \E d \in {0, SlowCallSec} :
         LET t == Slept(w.elapsed, LEASE_STATUS_CHECK_PERIOD_SEC, d)
             polled == [w EXCEPT !.elapsed = t, !.polls = @ + 1]
         IN \/ \* chi.blazar().lease.list() raises
               /\ w' = [polled EXCEPT !.outcome = "raised_list"]
               /\ Pop(BlazarClientException)
               /\ UNCHANGED req
            \/ \E leaselist \in LeaseLists(w.leaseid) :
                 LET status == get_lease_status(leaselist, w.leaseid)
                     seen == [polled EXCEPT !.status = status]
                 IN /\ req' = Listed(req, w.leaseid, status)
                    /\ IF status = w.desired
                       THEN /\ w' = [seen EXCEPT !.outcome = "returned"]
                            /\ Pop(NoExc)
                       ELSE IF RaisesOnError(status, w.erroneous)
                       THEN /\ w' = [seen EXCEPT !.outcome = "raised_error"]
                            /\ Pop(BlazarClientException)
                       ELSE /\ w' = seen
                            /\ UNCHANGED <<stack, exc, result>>
    /\ UNCHANGED <<op, cw, rm, rs, lz, ctx, lca>>

\* The loop ends by its deadline: raise BlazarClientException("timeout ...")
WaitLeaseTimeout ==
    /\ Top = "wait_until_lease_status"
    /\ ~LoopContinues(w.elapsed, LEASE_STATUS_CHECK_TIMEOUT_SEC)
    /\ w' = [w EXCEPT !.outcome = "raised_timeout"]
    /\ Pop(BlazarClientException)
    /\ UNCHANGED <<op, cw, rm, rs, req, lz, ctx, lca>>

\* ---------------------------------------- wait_until_container_removed
WaitContainerIter ==
    /\ Top = "wait_until_container_removed"
    /\ LoopContinues(cw.elapsed, CONTAINER_STATUS_CHECK_TIMEOUT_SEC)
    /\ \E d \in {0, SlowCallSec} :
         LET t == Slept(cw.elapsed, CONTAINER_STATUS_CHECK_PERIOD_SEC, d)
             polled == [cw EXCEPT !.elapsed = t, !.polls = @ + 1]
         IN \/ \* chi.container.list_containers() raises
               /\ cw' = [polled EXCEPT !.outcome = "raised_list"]
               /\ Pop("ClientException")
            \/ \E containerslist \in ContainerLists :
                 LET status ==
                         get_container_status(containerslist, TargetContainer)
                     seen == [polled EXCEPT
                                !.status = status,
                                !.listed = \E i \in DOMAIN containerslist :
                                    containerslist[i].name = TargetContainer]
                 IN IF ContainerGone(status)
                    THEN /\ cw' = [seen EXCEPT !.outcome = "returned"]
                         /\ Pop(NoExc)
                    ELSE /\ cw' = seen
                         /\ UNCHANGED <<stack, exc, result>>
    /\ UNCHANGED <<op, w, rm, rs, req, lz, ctx, lca>>

\* raise Exception("timeout reached, container ... is stuck in ...")
WaitContainerTimeout ==
    /\ Top = "wait_until_container_removed"
    /\ ~LoopContinues(cw.elapsed, CONTAINER_STATUS_CHECK_TIMEOUT_SEC)
    /\ cw' = [cw EXCEPT !.outcome = "raised_timeout"]
    /\ Pop("Exception")
    /\ UNCHANGED <<op, w, rm, rs, req, lz, ctx, lca>>

\* --------------------------------------------------------- remove_lease
\* try_to_remove returned False: the rest of the while loop's body.
RemoveFailed(r) ==
    LET left == r.retries_left - 1
    IN IF GivesUp(left)
       THEN \* logger.error("giving up ..."); the loop and the function end
            /\ rm' = [r EXCEPT !.retries_left = left, !.gaveup = @ + 1,
                               !.pc = "done"]
            /\ Pop(NoExc)
       ELSE \* time.sleep(REMOVE_LEASE_RETRY_PERIOD_SEC)
            /\ rm' = [r EXCEPT !.retries_left = left, !.sleeps = @ + 1,
                               !.slept = @ + REMOVE_LEASE_RETRY_PERIOD_SEC,
                               !.pc = "loop"]
            /\ exc' = NoExc
            /\ UNCHANGED <<stack, result>>

\* e is raised inside try_to_remove's try block.
RemoveRaised(r, e) ==
    IF Catches(e)
    THEN RemoveFailed(r)
    ELSE /\ rm' = [r EXCEPT !.pc = "done"]
         /\ Pop(e)

\* try_to_remove up to its call of wait_until_lease_status.
RemoveTry ==
    /\ Top = "remove_lease"
    /\ rm.pc = "loop"
    /\ rm.retries_left > 0
    /\ LET r == [rm EXCEPT !.attempts = @ + 1]
       IN \/ \* get_lease_status raises
             /\ RemoveRaised(r, BlazarClientException)
             /\ UNCHANGED <<w, req>>
          \/ \E leaselist \in LeaseLists(rm.leaseid) :
               LET status == get_lease_status(leaselist, rm.leaseid)
                   sent == [req EXCEPT !.deletes = @ + 1]
               IN IF RefusesRemoval(status)
                  THEN /\ RemoveRaised(r, BlazarClientException)
                       /\ req' = Listed(req, rm.leaseid, status)
                       /\ UNCHANGED w
                  ELSE \* chi.blazar().lease.delete(leaseid)
                       \/ /\ RemoveRaised([r EXCEPT !.deletes = @ + 1],
                                          BlazarClientException)
                          /\ req' = sent
                          /\ UNCHANGED w
                       \/ /\ rm' = [r EXCEPT !.deletes = @ + 1,
                                             !.pc = "waiting"]
                          /\ req' = Gone(sent, rm.leaseid)
                          /\ w' = NewWait(rm.leaseid, None, rm.erroneous)
                          /\ Push("wait_until_lease_status")
    /\ UNCHANGED <<op, cw, rs, lz, ctx, lca>>

\* wait_until_lease_status came back to try_to_remove.
RemoveAfterWait ==
    /\ Top = "remove_lease"
    /\ rm.pc = "waiting"
    /\ IF exc = NoExc
       THEN \* return True; break
            /\ rm' = [rm EXCEPT !.succeeded = TRUE, !.pc = "done"]
            /\ Pop(NoExc)
       ELSE RemoveRaised(rm, exc)
    /\ w' = IdleWait
    /\ UNCHANGED <<op, cw, rs, req, lz, ctx, lca>>

\* -------------------------------------------------------------- reserve
\* The item's type is checked before anything is sent.
ReserveStart ==
    /\ Top = "reserve"
    /\ rs.pc = "start"
    /\ IF rs.type = "network"
       THEN /\ rs' = [rs EXCEPT
                        !.retries_left = InitialRetries(CREATE_LEASE_RETRY_NUM),
                        !.pc = "loop"]
            /\ UNCHANGED <<stack, exc, result>>
       ELSE \* logger.error("... wrong type"); return
            /\ rs' = [rs EXCEPT !.pc = "done"]
            /\ Pop(NoExc)
    /\ UNCHANGED <<op, w, cw, rm, req, lz, ctx, lca>>

\* try_to_create_lease returned None: the rest of the while loop's body.
ReserveFailed(r) ==
    LET left == r.retries_left - 1
    IN IF GivesUp(left)
       THEN \* logger.error("giving up ..."); the loop and the function end
            /\ rs' = [r EXCEPT !.retries_left = left, !.gaveup = @ + 1,
                               !.answer = NoLease, !.pc = "done"]
            /\ Pop(NoExc)
       ELSE \* time.sleep(CREATE_LEASE_RETRY_PERIOD_SEC)
            /\ rs' = [r EXCEPT !.retries_left = left, !.sleeps = @ + 1,
                               !.slept = @ + CREATE_LEASE_RETRY_PERIOD_SEC,
                               !.answer = NoLease, !.pc = "loop"]
            /\ exc' = NoExc
            /\ UNCHANGED <<stack, result>>

\* e is raised inside try_to_create_lease's try block.
ReserveRaised(r, e) ==
    IF Catches(e)
    THEN IF RemovesFailedLease(r.leaseid)
         THEN /\ rs' = [r EXCEPT !.caught = @ + 1, !.pc = "removing"]
              /\ rm' = NewRemove(r.leaseid, TRUE)
              /\ Push("remove_lease")
         ELSE /\ ReserveFailed([r EXCEPT !.caught = @ + 1])
              /\ UNCHANGED rm
    ELSE /\ rs' = [r EXCEPT !.pc = "done"]
         /\ Pop(e)
         /\ UNCHANGED rm

\* try_to_create_lease up to its call of wait_until_lease_status.
ReserveTry ==
    /\ Top = "reserve"
    /\ rs.pc = "loop"
    /\ rs.retries_left > 0
    /\ LET r == [rs EXCEPT !.attempts = @ + 1, !.leaseid = NoLease,
                           !.waitEnded = FALSE, !.removeAttempts = 0]
           sent == [req EXCEPT !.creates = @ + 1]
       IN \/ \* chi.blazar().lease.create raises: leaseid is still None
             /\ ReserveRaised(r, BlazarClientException)
             /\ req' = sent
             /\ UNCHANGED w
          \/ \* leaseid = leaseans['id']: a lease no earlier attempt made
             /\ rs' = [r EXCEPT !.leaseid = req.creates + 1, !.pc = "waiting"]
             /\ req' = [sent EXCEPT !.live = @ \cup {req.creates + 1}]
             /\ w' = NewWait(req.creates + 1, "ACTIVE", FALSE)
             /\ Push("wait_until_lease_status")
             /\ UNCHANGED rm
    /\ UNCHANGED <<op, cw, lz, ctx, lca>>

\* wait_until_lease_status came back to try_to_create_lease.
ReserveAfterWait ==
    /\ Top = "reserve"
    /\ rs.pc = "waiting"
    /\ LET r == [rs EXCEPT !.waitEnded = TRUE]
       IN IF exc = NoExc
          THEN \* return leaseans; if answer: return answer
               /\ rs' = [r EXCEPT !.answer = r.leaseid, !.succeeded = TRUE,
                                  !.pc = "done"]
               /\ Pop(NoExc)
               /\ UNCHANGED rm
          ELSE ReserveRaised(r, exc)
    /\ w' = IdleWait
    /\ UNCHANGED <<op, cw, req, lz, ctx, lca>>

\* remove_lease came back to the except clause: return None.
ReserveAfterRemove ==
    /\ Top = "reserve"
    /\ rs.pc = "removing"
    /\ IF exc = NoExc
       THEN ReserveFailed([rs EXCEPT !.removeAttempts = rm.attempts])
       ELSE /\ rs' = [rs EXCEPT !.pc = "done"]
            /\ Pop(exc)
    /\ rm' = IdleRemove
    /\ req' = Removed(req, rm)
    /\ UNCHANGED <<op, w, cw, lz, ctx, lca>>

\* ------------------------------------------------------ Lease.__enter__
\* with lease: __enter__ up to its call of wait.
LeaseEnter ==
    /\ op = "Lease"
    /\ ctx.pc = "outside"
    /\ ctx.enters < MaxEnters
    /\ LET c == [NewContext EXCEPT !.enters = ctx.enters + 1,
                                    !.exits = ctx.exits,
                                    !.completed = ctx.completed,
                                    !.deletes = ctx.deletes]
       IN IF lz.lease = <<>>
          THEN \* raise RuntimeError("Lease context manager not reentrant")
               ctx' = [c EXCEPT !.enter = "RuntimeError"]
          ELSE ctx' = [c EXCEPT !.pc = "waiting"]
    /\ UNCHANGED <<op, stack, exc, result, w, cw, rm, rs, req, lz, lca>>

\* One round of the for loop of Lease.wait: sleep, self.ready, decide.
LeaseWaitCheck ==
    /\ op = "Lease"
    /\ ctx.pc = "waiting"
    /\ ctx.checks < WAIT_CHECKS
    /\ LET c == [ctx EXCEPT !.slept = @ + WAIT_SLEEP_SEC, !.checks = @ + 1]
       IN \/ \* blazar.lease.get raises in refresh
             /\ ctx' = [c EXCEPT !.enter = BlazarClientException,
                                 !.pc = "outside"]
             /\ UNCHANGED lz
          \/ \* blazar.lease.get answers None: self.lease.get fails
             /\ ctx' = [c EXCEPT !.enter = "AttributeError",
                                 !.pc = "outside"]
             /\ lz' = [lz EXCEPT !.lease = <<>>]
          \/ \E fresh \in LeaseDicts :
               /\ lz' = [lz EXCEPT !.lease = <<fresh>>]
               /\ IF LeaseReady(lz.lease[1], fresh)
                  THEN \* break; __enter__ returns self
                       ctx' = [c EXCEPT !.enter = "returned",
                                        !.readySeen = TRUE, !.pc = "body"]
                  ELSE IF WaitExhausted(c.checks)
                  THEN \* raise RuntimeError("timeout, lease failed to start")
                       ctx' = [c EXCEPT !.enter = "RuntimeError",
                                        !.pc = "outside"]
                  ELSE ctx' = c
    /\ UNCHANGED <<op, stack, exc, result, w, cw, rm, rs, req, lca>>

\* ---------------------------------------------------- Lease.create_server
LeaseCreateServer ==
    /\ op = "Lease"
    /\ ctx.pc = "body"
    /\ lz.servers < MaxServers
    /\ lz' = [lz EXCEPT !.servers = @ + 1]
    /\ UNCHANGED <<op, stack, exc, result, w, cw, rm, rs, req, ctx, lca>>

\* ------------------------------------------------------- Lease.__exit__
\* The with block ends, normally (e = None) or by exception e.
LeaseExit ==
    /\ op = "Lease"
    /\ ctx.pc = "body"
    /\ \E e \in BlockExceptions : \E serverid \in FailedServers(e) :
         LET c == [ctx EXCEPT !.pc = "outside", !.exits = @ + 1,
                              !.exitExc = e, !.exitServer = serverid,
                              !.exitDeletes = 0,
                              !.exitUpdates = 0, !.exitUpdate = <<>>,
                              !.exitServerDeletes = 0]
         IN IF ExitUnclean(e, lz.noclean)
            THEN /\ ctx' = [c EXCEPT !.exitPath = "noclean",
                                     !.exitOutcome = "returned",
                                     !.completed = @ + 1]
                 /\ UNCHANGED lz
            ELSE IF ExitSequesters(e, lz.sequester)
            THEN \* blazar.lease.update(...) answers or raises
                 /\ \E outcome \in {"returned", "raised"} :
                      ctx' = [c EXCEPT !.exitPath = "sequester",
                                       !.exitUpdates = 1,
                                       !.exitUpdate =
                                           <<SequesterUpdate(serverid)>>,
                                       !.exitOutcome = outcome,
                                       !.completed =
                                           IF outcome = "returned"
                                           THEN @ + 1 ELSE @]
                 /\ UNCHANGED lz
            ELSE \/ \* blazar.lease.get raises
                    /\ ctx' = [c EXCEPT !.exitPath = "clean",
                                        !.exitOutcome = "raised"]
                    /\ UNCHANGED lz
                 \/ \* a server.delete() raises after n servers were deleted
                    /\ \E n \in 0..(lz.servers - 1) :
                         ctx' = [c EXCEPT !.exitPath = "clean",
                                          !.exitServerDeletes = n + 1,
                                          !.exitOutcome = "raised"]
                    /\ UNCHANGED lz
                 \/ \* the servers are deleted if the lease is still there
                    \E found \in BOOLEAN :
                      LET sd == IF found THEN lz.servers ELSE 0
                      IN IF ExitDeletes(lz.preexisting)
                         THEN \* self.delete(): the request, then lease = None
                              \/ /\ ctx' = [c EXCEPT
                                       !.exitPath = "clean",
                                       !.exitServerDeletes = sd,
                                       !.exitDeletes = 1,
                                       !.deletes = @ + 1,
                                       !.exitOutcome = "returned",
                                       !.completed = @ + 1]
                                 /\ lz' = [lz EXCEPT !.lease = <<>>]
                              \/ /\ ctx' = [c EXCEPT
                                       !.exitPath = "clean",
                                       !.exitServerDeletes = sd,
                                       !.exitDeletes = 1,
                                       !.deletes = @ + 1,
                                       !.exitOutcome = "raised"]
                                 /\ UNCHANGED lz
                         ELSE /\ ctx' = [c EXCEPT
                                       !.exitPath = "clean",
                                       !.exitServerDeletes = sd,
                                       !.exitOutcome = "returned",
                                       !.completed = @ + 1]
                              /\ UNCHANGED lz
    /\ UNCHANGED <<op, stack, exc, result, w, cw, rm, rs, req, lca>>

Next ==
    \/ LeaseCreateArgs
    \/ WaitLeaseIter
    \/ WaitLeaseTimeout
    \/ WaitContainerIter
    \/ WaitContainerTimeout
    \/ RemoveTry
    \/ RemoveAfterWait
    \/ ReserveStart
    \/ ReserveTry
    \/ ReserveAfterWait
    \/ ReserveAfterRemove
    \/ LeaseEnter
    \/ LeaseWaitCheck
    \/ LeaseCreateServer
    \/ LeaseExit

Spec == Init /\ [][Next]_vars

\* The interpreter keeps running the call: no step is put off forever.
FairSpec == Spec /\ WF_vars(Next)

\* =============================================================== claims
WaitRaised == {"raised_error", "raised_timeout", "raised_list"}
LeaseMaxPolls ==
    LEASE_STATUS_CHECK_TIMEOUT_SEC \div LEASE_STATUS_CHECK_PERIOD_SEC
ContainerMaxPolls ==
    CONTAINER_STATUS_CHECK_TIMEOUT_SEC \div CONTAINER_STATUS_CHECK_PERIOD_SEC

\* C1 as stated: wait_until_lease_status returns only when its last poll
\* observed the desired status, and a poll that observes ERROR (when the
\* caller waits for another status) makes it raise BlazarClientException.
C1_ErrorPollAlwaysRaises ==
    /\ w.outcome = "returned" => w.status = w.desired
    /\ (w.status = "ERROR" /\ w.desired # "ERROR")
          => (w.outcome \in WaitRaised /\ exc = BlazarClientException)

\* What holds of wait_until_lease_status after each of its polls.
C1_WaitOutcomeState ==
    /\ w.outcome = "returned" => (w.status = w.desired /\ w.polls >= 1)
    /\ (w.status = "ERROR" /\ w.desired # "ERROR" /\ ~w.erroneous)
          => w.outcome = "raised_error"
    /\ (w.status = "ERROR" /\ w.desired # "ERROR" /\ w.erroneous)
          => w.outcome \notin {"raised_error", "returned"}
    /\ w.outcome \in WaitRaised => exc = BlazarClientException
    /\ w.outcome = "raised_timeout"
          => (w.elapsed >= LEASE_STATUS_CHECK_TIMEOUT_SEC
                /\ w.status # w.desired)
C1_WaitOutcomeStep ==
    (w.outcome = "running" /\ w.elapsed >= LEASE_STATUS_CHECK_TIMEOUT_SEC)
        => (w'.outcome = "raised_timeout" /\ exc' = BlazarClientException)

\* C1 amended: wait_until_lease_status returns only when its last poll
\* observed the desired status; it raises BlazarClientException at a poll
\* that observes ERROR when erroneouslease is not set and ERROR is not the
\* desired status (with erroneouslease set such a poll raises nothing and
\* polling goes on); and once the deadline has passed without a return the
\* next thing it does is raise BlazarClientException.
C1_WaitOutcome == [] C1_WaitOutcomeState /\ [][C1_WaitOutcomeStep]_vars

\* C1 witness: a poll observed ERROR, erroneouslease let it pass, and the
\* call ended by its deadline.
C1_Witness ==
    /\ w.outcome = "raised_timeout"
    /\ w.erroneous
    /\ w.status = "ERROR"

\* The polls of the running loops against timeout/period.
C2_PollsBounded ==
    /\ w.polls <= LeaseMaxPolls
    /\ cw.polls <= ContainerMaxPolls
    /\ LeaseMaxPolls = 24
    /\ ContainerMaxPolls = 6

\* C2: wait_until_lease_status polls at most 120/5 = 24 times and
\* wait_until_container_removed at most 30/5 = 6 times, and each loop that
\* has started ends.
C2_PollingLoopsEnd ==
    /\ [] C2_PollsBounded
    /\ (Top = "wait_until_lease_status") ~> (Top # "wait_until_lease_status")
    /\ (Top = "wait_until_container_removed") ~> (result # "running")

\* C2 witness: a lease wait that used all its 24 polls and timed out.
C2_Witness ==
    /\ w.outcome = "raised_timeout"
    /\ w.polls = 24

\* The attempts of the running reserve and remove_lease.
C3_AttemptsBounded ==
    /\ req.creates <= 1 + CREATE_LEASE_RETRY_NUM
    /\ rs.attempts <= 3
    /\ rm.attempts <= 1 + REMOVE_LEASE_RETRY_NUM
    /\ rm.attempts <= 2
C3_NoAttemptAfterSuccess ==
    /\ rs.succeeded => (req.creates' = req.creates /\ rs'.attempts = rs.attempts)
    /\ (rm.succeeded /\ rm'.leaseid = rm.leaseid)
          => (rm'.attempts = rm.attempts /\ rm'.deletes = rm.deletes)

\* C3: one reserve sends at most 1 + CREATE_LEASE_RETRY_NUM = 3 create
\* requests, one remove_lease makes at most 1 + REMOVE_LEASE_RETRY_NUM = 2
\* removal attempts, and nothing more is attempted after a success.
C3_RetriesBounded ==
    [] C3_AttemptsBounded /\ [][C3_NoAttemptAfterSuccess]_vars

\* C3 witness: the third create of a reserve was sent and the removal of
\* its lease was given up after two attempts.
C3_Witness ==
    /\ req.creates = 3
    /\ rm.attempts = 2
    /\ rm.gaveup = 1

\* C4: no BlazarClientException leaves reserve or remove_lease: reserve
\* ends returning the lease it created or, having given up, None, and
\* remove_lease ends returning, also when reserve called it.
C4_RemoteErrorsCaught ==
    /\ op \in {"reserve", "remove_lease"} => result # "raised"
    /\ (Top = "reserve" /\ rs.pc = "removing") => exc = NoExc
    /\ (op = "reserve" /\ result = "returned" /\ rs.type = "network")
          => \/ rs.succeeded /\ rs.answer = rs.leaseid /\ rs.answer # NoLease
             \/ ~rs.succeeded /\ rs.answer = NoLease /\ rs.gaveup = 1

\* C4 witness: reserve caught a remote error and still returned a lease.
C4_Witness ==
    /\ op = "reserve"
    /\ result = "returned"
    /\ rs.succeeded
    /\ rs.caught >= 1

\* What holds of wait_until_container_removed after each of its polls.
C5_ContainerState ==
    /\ cw.outcome = "returned" <=> (cw.status # Unbound /\ ~cw.listed)
    /\ cw.outcome = "raised_timeout"
          => /\ cw.elapsed >= CONTAINER_STATUS_CHECK_TIMEOUT_SEC
             /\ cw.listed
             /\ exc = "Exception"
C5_ContainerStep ==
    (cw.outcome = "running"
        /\ cw.elapsed >= CONTAINER_STATUS_CHECK_TIMEOUT_SEC)
        => (cw'.outcome = "raised_timeout" /\ exc' = "Exception")

\* C5: wait_until_container_removed returns exactly when a poll lists no
\* container of the name; it raises the generic Exception only after the
\* deadline, with the container listed in its last poll, and after the
\* deadline it does nothing but raise it.
C5_ContainerOutcome == [] C5_ContainerState /\ [][C5_ContainerStep]_vars

\* C5 witness: the container was listed in one poll and gone in a later one.
C5_Witness ==
    /\ cw.outcome = "returned"
    /\ cw.polls > 1

\* A step that sends a create request other than the call's first.
C6_CreateStep ==
    (req.creates' = req.creates + 1 /\ req.creates >= 1)
        => /\ stack = <<"reserve">>
           /\ \/ rs.leaseid = NoLease
              \/ rs.waitEnded /\ rs.removeAttempts >= 1

\* C6: after its first, reserve sends a create request only when the
\* previous attempt's lease was never created, or its status wait has
\* ended and remove_lease has made an attempt at removing it; and nothing
\* else of the call is running at that moment.
C6_CreatesSerialised == [][C6_CreateStep]_vars

\* C6 witness: the second create made a lease, its wait failed, removal
\* was attempted, and reserve is about to send the third create.
C6_Witness ==
    /\ rs.pc = "loop"
    /\ rs.leaseid = 2
    /\ rs.waitEnded
    /\ rs.removeAttempts >= 1

\* The requests one call has sent.
C7_RequestsBounded ==
    /\ req.creates <= 3
    /\ req.deletes <= 6
    /\ rm.attempts <= 2
    /\ rm.deletes <= rm.attempts
    /\ w.polls <= 24

LeftUnclean == ctx.exitExc # None /\ lz.noclean
LeftSequestered == ctx.exitExc = "ServerError" /\ lz.sequester
ReadyLeases ==
    {[action |-> None, status |-> "ACTIVE"],
     [action |-> "START", status |-> "COMPLETE"]}

\* C8 as stated: __enter__ of a newly created Lease completes only with
\* the lease seen ready, and every __exit__ that returns has sent the
\* lease's delete request exactly once.
C8_ExitAlwaysDeletes ==
    /\ ctx.pc = "body" => lz.lease[1] \in ReadyLeases
    /\ (~lz.preexisting /\ ctx.exitOutcome = "returned")
          => ctx.exitDeletes = 1

\* C8 amended: __enter__ of a newly created Lease completes only with the
\* lease seen ready, and an __exit__ that returns has sent the lease's
\* delete request exactly once unless the block ended by an exception with
\* _no_clean set, or by a ServerError with sequester set: then it has sent
\* none.  No __exit__ sends it twice.
C8_EnterReadyExitDeletes ==
    /\ ctx.pc = "body"
          => (ctx.checks >= 1 /\ lz.lease # <<>> /\ lz.lease[1] \in ReadyLeases)
    /\ (~lz.preexisting /\ ctx.exitOutcome = "returned"
           /\ ~LeftUnclean /\ ~LeftSequestered)
          => (ctx.exitDeletes = 1 /\ lz.lease = <<>>)
    /\ (ctx.exitOutcome # "none" /\ (LeftUnclean \/ LeftSequestered))
          => ctx.exitDeletes = 0
    /\ ctx.exitDeletes <= 1

\* C8 witness: a new lease was entered, the block failed, and __exit__
\* deleted the lease.
C8_Witness ==
    /\ ~lz.preexisting
    /\ ctx.exitOutcome = "returned"
    /\ ctx.exitExc = "ServerError"
    /\ ctx.exitDeletes = 1

\* C9: no __exit__ of a Lease made by from_existing sends a lease delete
\* request, however the block ended.
C9_PreexistingNeverDeleted ==
    lz.preexisting => (ctx.deletes = 0 /\ ctx.exitDeletes = 0)

\* C9 witness: a pre-existing lease went through an __exit__ that got past
\* the deletion of the servers, after a block that failed.
C9_Witness ==
    /\ lz.preexisting
    /\ ctx.exitOutcome = "returned"
    /\ ctx.exitExc = "ServerError"
    /\ ctx.exitServerDeletes = 1

\* C10: with _no_clean set no __exit__ sends a lease delete request.
C10_NoCleanNeverDeletes ==
    lz.noclean => ctx.deletes = 0

\* C11: when sequester is set and the with block ends by a ServerError,
\* __exit__ sends no lease delete and deletes no server, and sends exactly
\* one lease update, named after the failed instance, with a prolongation.
C11_SequesterAlwaysUpdates ==
    (lz.sequester /\ ctx.exitExc = "ServerError" /\ ctx.exitOutcome # "none")
       => /\ ctx.exitDeletes = 0
          /\ ctx.exitServerDeletes = 0
          /\ ctx.exitUpdates = 1
          /\ ctx.exitUpdate = <<SequesterUpdate(ctx.exitServer)>>

\* C12: an __enter__ that follows a completed __exit__ of the same Lease
\* object raises RuntimeError and makes no readiness check.  (An __enter__
\* clears the record of the last __exit__, so a completed exit with no exit
\* outcome means that an __enter__ came after it.)
C12_EnterAfterExitRaises ==
    (ctx.completed >= 1 /\ ctx.exitOutcome = "none")
       => /\ ctx.enter = "RuntimeError"
          /\ ctx.checks = 0
          /\ ctx.pc = "outside"

\* One step of the Lease object: a readiness check is made only while no
\* check of this wait has found the lease ready, and the check that finds
\* it ready ends the wait by returning.
C13_CheckStep ==
    ctx'.checks = ctx.checks + 1
        => /\ ~ctx.readySeen
           /\ ctx'.readySeen => (ctx'.pc = "body" /\ ctx'.enter = "returned")

C13_WaitState ==
    /\ ctx.checks <= 15
    /\ ctx.slept = 10 * ctx.checks
    /\ ctx.slept <= 150
    /\ ctx.pc = "body" => ctx.readySeen
    /\ (ctx.checks >= 1 /\ ctx.enter = "RuntimeError")
          => (ctx.checks = 15 /\ ~ctx.readySeen)
    /\ (ctx.checks = 15 /\ ~ctx.readySeen
           /\ ctx.enter \notin {BlazarClientException, "AttributeError"})
          => ctx.enter = "RuntimeError"

\* C13: Lease.wait makes at most 15 readiness checks, each after one sleep
\* of 10 seconds (150 seconds of sleep at most); it returns at the first
\* check that finds the lease ready, and it raises RuntimeError exactly
\* when 15 checks were made and none found the lease ready (a check whose
\* refresh fails ends the wait with that failure and is not one that
\* finds the lease ready or not ready).
C13_WaitChecks == []C13_WaitState /\ [][C13_CheckStep]_vars

\* C13 witness: a wait that slept 150 seconds, made its 15th check and
\* raised RuntimeError.
C13_Witness ==
    /\ ctx.enter = "RuntimeError"
    /\ ctx.checks = 15
    /\ ctx.slept = 150
    /\ ~ctx.readySeen

\* The seconds a length argument stands for: a number counts seconds.
GivenLengthSeconds(length) ==
    IF length.kind = "number" THEN length.n
    ELSE IF length.kind = "timedelta"
    THEN length.td.days * 86400 + length.td.seconds
    ELSE 86400

\* C14: a call of lease_create_args with both length and end raises
\* ValueError and returns no dictionary, and no other call raises it; with
\* neither, length is 1 day; whenever end is not given, end is start plus
\* length, a numeric length counting seconds, and a call that returns
\* gives start and end in the Blazar time format.
C14_LengthOrEnd ==
    lca.outcome \notin {"idle", "running"}
       => LET a == lca.args
              start == IF a.start.now THEN a.clock + 70 ELSE a.start.t
          IN /\ lca.locals.start = start
             /\ (a.length.kind # None /\ a.end.given)
                   <=> lca.outcome = "ValueError"
             /\ lca.outcome = "ValueError" => lca.built = <<>>
             /\ (a.length.kind = None /\ ~a.end.given)
                   => lca.locals.length = [days |-> 1, seconds |-> 0]
             /\ ~a.end.given
                   => lca.locals.end = start + GivenLengthSeconds(a.length)
             /\ lca.outcome = "returned"
                   => lca.built = <<[start |-> strftime(start),
                                     end |-> strftime(lca.locals.end)]>>

\* C14 witness: a call with a numeric length and no end that returned.
C14_Witness ==
    /\ lca.outcome = "returned"
    /\ lca.args.length.kind = "number"
    /\ lca.args.length.n > 0
    /\ ~lca.args.end.given
    /\ lca.locals.end = lca.locals.start + lca.args.length.n
    /\ lca.built[1].end # lca.built[1].start

\* C15: in reserve and in remove_lease every failed attempt but the last
\* allowed one is followed by one sleep of the fixed period (5 seconds) and
\* then by the next attempt; the last allowed attempt, when it fails, is
\* followed by one "giving up" log and no sleep; and a call in which an
\* attempt succeeded logs no "giving up".
C15_SleepThenRetryOrGiveUp ==
    /\ rs.slept = 5 * rs.sleeps
    /\ rs.pc = "loop" => (rs.sleeps = rs.attempts /\ rs.gaveup = 0
                           /\ rs.attempts < 3)
    /\ rs.pc \in {"waiting", "removing"}
          => (rs.sleeps = rs.attempts - 1 /\ rs.gaveup = 0)
    /\ (rs.pc = "done" /\ rs.type = "network")
          => IF rs.succeeded
             THEN rs.sleeps = rs.attempts - 1 /\ rs.gaveup = 0
             ELSE rs.attempts = 3 /\ rs.sleeps = 2 /\ rs.gaveup = 1
    /\ rm.slept = 5 * rm.sleeps
    /\ rm.pc = "loop" => (rm.sleeps = rm.attempts /\ rm.gaveup = 0
                           /\ rm.attempts < 2)
    /\ rm.pc = "waiting" => (rm.sleeps = rm.attempts - 1 /\ rm.gaveup = 0)
    /\ rm.pc = "done"
          => IF rm.succeeded
             THEN rm.sleeps = rm.attempts - 1 /\ rm.gaveup = 0
             ELSE rm.attempts = 2 /\ rm.sleeps = 1 /\ rm.gaveup = 1

\* C15 witness: a reserve whose three attempts failed has slept twice and
\* given up once, right after a remove_lease that slept once and gave up.
C15_Witness ==
    /\ rs.pc = "done"
    /\ ~rs.succeeded
    /\ rs.sleeps = 2
    /\ rs.slept = 10
    /\ rs.gaveup = 1
    /\ rs.removeAttempts = 2

\* C16 as stated: at every point of a reserve call at most one lease that
\* the call created exists on the remote service.
C16_AtMostOneLease ==
    Cardinality(req.live) <= 1

\* C16 amended: at every point of a reserve call at most one lease that the
\* call created exists on the remote service without remove_lease having
\* given up removing it, and that one is the lease of the running attempt;
\* with the leases left behind by failed removals, at most 3 exist.
C16_AtMostOneLeaseNotGivenUp ==
    /\ Cardinality(req.live \ req.left) <= 1
    /\ req.live \ req.left \subseteq {rs.leaseid}
    /\ req.left \subseteq req.live
    /\ Cardinality(req.live) <= 3

\* C16 witness: two leases were left behind by removals that gave up, and
\* the third create request has made a third lease.
C16_Witness ==
    /\ Cardinality(req.left) = 2
    /\ req.live \ req.left = {3}
    /\ rs.leaseid = 3

====
